---- MODULE Spec2Model ----
(***************************************************************************)
(* The concurrent task-dispatch engine of process_questions: round-robin   *)
(* assignment of API keys to questions, a ThreadPoolExecutor of            *)
(* num_workers threads running process_single_question, the main thread's  *)
(* as_completed loop, and the delayed clear_status threads.                *)
(*                                                                         *)
(* Two variants of the program share this engine: the evaluation script    *)
(* (src/3_eval.py, mode "eval") and the filter script                      *)
(* (src/unnamed/part_000, mode "filter").                                  *)
(*                                                                         *)
(* Items are numbered 1..N here; the code's 0-based position of item j is  *)
(* j - 1 (the "index" field of a task), and the code's records carry       *)
(* index + 1, which is j again.                                            *)
(***************************************************************************)
EXTENDS Integers, Sequences, FiniteSets, TLC

\* ------------------------------------------------------------------ bounds

MaxItems == 3        \* longest question list drawn by Init
MaxKeys == 2         \* longest API key list drawn by Init
MaxAnswerLen == 2
MaxWorkersCfg == 2   \* largest max_workers argument drawn by Init

\* ------------------------------------------------------------------ inputs

Unset == -1          \* a local variable that has not been assigned yet

Modes == {"eval", "filter"}

\* A question text is a sequence of characters; " " is whitespace.
Texts == {<<"q">>, <<" ">>}

RECURSIVE LStrip(_)
LStrip(s) == IF s # <<>> /\ Head(s) = " " THEN LStrip(Tail(s)) ELSE s

RECURSIVE RStrip(_)
RStrip(s) ==
    IF s # <<>> /\ s[Len(s)] = " " THEN RStrip(SubSeq(s, 1, Len(s) - 1)) ELSE s

\* str.strip()
Strip(s) == RStrip(LStrip(s))

\* One entry of the question file: a dict with "question" and "answer".
Items == [question : Texts, answer : {<<"A">>}]

RECURSIVE SeqsUpTo(_, _)
SeqsUpTo(S, n) ==
    IF n = 0 THEN {<<>>}
    ELSE LET shorter == SeqsUpTo(S, n - 1)
         IN  shorter \cup {Append(s, x) : s \in {t \in shorter : Len(t) = n - 1}, x \in S}

\* An API key is <<first 8 characters, remaining characters>>.
KeyPoolKinds == {"distinct", "sameprefix", "duplicate"}

\* The i-th key of a key file of the given kind: all keys different with
\* different 8-character prefixes; all keys different behind one common
\* prefix; or the same key repeated in pairs.
PoolKey(kind, i) ==
    CASE kind = "distinct"   -> <<i, 1>>
      [] kind = "sameprefix" -> <<1, i>>
      [] kind = "duplicate"  -> <<(i + 1) \div 2, 1>>

KeyLists ==
    {[i \in 1..k |-> PoolKey(kind, i)] : kind \in KeyPoolKinds, k \in 0..MaxKeys}

Range(s) == {s[i] : i \in DOMAIN s}

\* sum(f[x] for x in S)
RECURSIVE SumOver(_, _)
SumOver(f, S) ==
    IF S = {} THEN 0
    ELSE LET x == CHOOSE y \in S : TRUE IN f[x] + SumOver(f, S \ {x})

\* api_key[:8]
KeyId(key) == key[1]

\* ------------------------------------------------------------------- state

VARIABLES
    mode,                 \* which of the two scripts runs
    max_workers,          \* argument of process_questions
    api_keys,             \* argument of process_questions
    questions,            \* what load_questions returns
    pc,                   \* position of the main thread in process_questions
    num_workers,
    used_api_keys,
    key_status,           \* key id -> status label
    key_usage_count,      \* key -> number of tasks assigned
    tasks,                \* the task tuples, in submission order
    ipc,                  \* per task: position of its process_single_question
    calls,                \* per task: requests.post calls made for it
    response,             \* per task: what its requests.post came back with
    result,               \* per task: the tuple process_single_question returns
    processed_questions,
    failed_questions,
    category_results,     \* filter mode: label -> list of questions
    timers,               \* tasks whose clear_status thread is sleeping
    progress_n,           \* progress_bar.n
    progress_disable,     \* progress_bar.disable
    processed_count,
    success_count,
    error_count,
    report,               \* the final statistics printed by process_questions
    reports,              \* the report files generate_reports wrote
    result_lock,          \* who holds result_lock
    mpc,                  \* position of the display_status thread
    completed             \* display_status: its local copy of progress_bar.n

vars == <<mode, max_workers, api_keys, questions, pc, num_workers, used_api_keys,
          key_status, key_usage_count, tasks, ipc, calls, response, result,
          processed_questions, failed_questions, category_results, timers,
          progress_n, progress_disable, processed_count, success_count,
          error_count, report, reports, result_lock, mpc, completed>>

inputs == <<mode, max_workers, api_keys, questions>>
setup == <<num_workers, used_api_keys, key_usage_count, tasks>>
counters == <<processed_count, success_count, error_count>>
collections == <<processed_questions, failed_questions, category_results>>
bar == <<progress_n, progress_disable>>
monitor == <<result_lock, mpc, completed>>

N == Len(questions)
K == Len(api_keys)
ItemIds == 1..N

\* The result tuple (processed, saved, ...) of process_single_question.
NoResult == [set |-> FALSE, processed |-> FALSE, saved |-> FALSE]
Success == [set |-> TRUE, processed |-> TRUE, saved |-> TRUE]
Failure == [set |-> TRUE, processed |-> FALSE, saved |-> FALSE]

\* The value of a response that carries none: an empty text, an answer being
\* a sequence of characters and a category one of the label strings.
NoValue(m) == IF m = "eval" THEN <<>> ELSE ""

Idle == [kind |-> "idle", index |-> 0]
Processing(i) == [kind |-> "processing", index |-> i]
FailedStatus(i) == [kind |-> "failed", index |-> i]

\* The state when process_questions is entered, the question file holding
\* one of the lists of QuestionLists.
InitOver(QuestionLists) ==
    /\ mode \in Modes
    /\ max_workers \in 1..MaxWorkersCfg
    /\ api_keys \in KeyLists
    /\ questions \in QuestionLists
    /\ pc = "start"
    /\ num_workers = Unset
    /\ used_api_keys = <<>>
    /\ key_status = <<>>
    /\ key_usage_count = <<>>
    /\ tasks = <<>>
    /\ ipc = <<>>
    /\ calls = <<>>
    /\ response = <<>>
    /\ result = <<>>
    /\ processed_questions = <<>>
    /\ failed_questions = <<>>
    /\ category_results = <<>>
    /\ timers = {}
    /\ progress_n = 0
    /\ progress_disable = FALSE
    /\ processed_count = 0
    /\ success_count = 0
    /\ error_count = 0
    /\ report = <<>>
    /\ reports = <<>>
    /\ result_lock = "free"
    /\ mpc = "off"
    /\ completed = 0

Init == InitOver(SeqsUpTo(Items, MaxItems))

\* ------------------------------------------------- main thread: preparation

Min2(a, b) == IF a <= b THEN a ELSE b

\* Fault: the item count is left out of the minimum.
NumWorkersNoItems(w, k, n) == Min2(w, k)

\* num_workers = min(max_workers, len(api_keys), len(questions))
NumWorkers(w, k, n) == Min2(Min2(w, k), n)

\* Fault: the key list is not cut down to the first num_workers keys.
UsedKeysAll(keys, n) == keys

\* api_keys[:num_workers]
UsedKeys(keys, n) == SubSeq(keys, 1, Min2(n, Len(keys)))

\* Fault: every item gets the first key.
TaskKeyFirst(i, keys) == keys[1]

\* used_api_keys[i % len(used_api_keys)], i the 0-based position of the item
TaskKey(i, keys) == keys[(i % Len(keys)) + 1]

\* The task tuple of the item at 1-based position j.
Task(j, qs, keys) ==
    [question_data |-> qs[j], api_key |-> TaskKey(j - 1, keys), index |-> j - 1]

\* key_usage_count[api_key] += 1, once per iteration of the task loop over
\* the items at 0-based positions i .. n-1.
RECURSIVE CountUsage(_, _, _, _)
CountUsage(counts, i, n, keys) ==
    IF i >= n THEN counts
    ELSE CountUsage([counts EXCEPT ![TaskKey(i, keys)] = @ + 1], i + 1, n, keys)

\* Fault: the task loop counts nothing.
UsageAfterAssignNone(counts, n, keys) == counts

\* Fault: the first item's key is not counted.
UsageAfterAssignSkipFirst(counts, n, keys) == CountUsage(counts, 1, n, keys)

\* key_usage_count when the task loop has run over all n items.
UsageAfterAssign(counts, n, keys) == CountUsage(counts, 0, n, keys)

\* questions = load_questions(...); an empty list is reported and the
\* function returns.
LoadQuestions ==
    /\ pc = "start"
    /\ IF N = 0
       THEN /\ pc' = "returned"
            /\ report' = [kind |-> "empty"]
       ELSE /\ pc' = "setup"
            /\ UNCHANGED report
    /\ UNCHANGED <<inputs, setup, key_status, ipc, calls, response, result,
                   collections, timers, bar, counters, reports, monitor>>

\* num_workers, used_api_keys and the two dictionaries keyed by them; the
\* lock, the progress bar and the lists are created and the display_status
\* thread is started.
Setup ==
    /\ pc = "setup"
    /\ num_workers' = NumWorkers(max_workers, K, N)
    /\ used_api_keys' = UsedKeys(api_keys, num_workers')
    /\ key_status' = [id \in {KeyId(k) : k \in Range(used_api_keys')} |-> Idle]
    /\ key_usage_count' = [k \in Range(used_api_keys') |-> 0]
    /\ mpc' = "test"
    /\ pc' = "assign"
    /\ UNCHANGED <<inputs, tasks, ipc, calls, response, result, collections,
                   timers, bar, counters, report, reports, result_lock,
                   completed>>

\* The loop that builds the task list.  With an empty used_api_keys the
\* first iteration divides by zero and the exception leaves the function.
AssignTasks ==
    /\ pc = "assign"
    /\ IF Len(used_api_keys) = 0
       THEN /\ pc' = "crashed"
            /\ UNCHANGED <<tasks, key_usage_count>>
       ELSE /\ tasks' = [j \in 1..N |-> Task(j, questions, used_api_keys)]
            /\ key_usage_count' = UsageAfterAssign(key_usage_count, N, used_api_keys)
            /\ pc' = "submit"
    /\ UNCHANGED <<inputs, num_workers, used_api_keys, key_status, ipc, calls,
                   response, result, collections, timers, bar, counters, report,
                   reports, monitor>>

\* executor.submit for every task: all futures pending, in submission order.
Submit ==
    /\ pc = "submit"
    /\ ipc' = [j \in 1..N |-> "queued"]
    /\ calls' = [j \in 1..N |-> 0]
    /\ response' = [j \in 1..N |-> [kind |-> "none", value |-> NoValue(mode)]]
    /\ result' = [j \in 1..N |-> NoResult]
    /\ pc' = "dispatch"
    /\ UNCHANGED <<inputs, setup, key_status, collections, timers, bar,
                   counters, report, reports, monitor>>

\* ------------------------------------------------------- the remote service

\* What one requests.post call can come back with: a body that parses, with
\* the answer (or category) it carries; a transport failure (connection
\* error, timeout, non-2xx status); a body that is not JSON.
AiAnswers == {<<"a", " ">>, <<"B">>}
Recognised == {"X-ray", "CT", "MRI", "ultrasound", "nuclear"}
AiCategories == {"CT", "unrelated"}

Responses(m) ==
    IF m = "eval"
    THEN {[kind |-> "ok", value |-> a] : a \in AiAnswers}
         \cup {[kind |-> "transport", value |-> NoValue(m)],
               [kind |-> "malformed", value |-> NoValue(m)]}
    ELSE {[kind |-> "ok", value |-> c] : c \in AiCategories}
         \cup {[kind |-> "transport", value |-> NoValue(m)],
               [kind |-> "malformed", value |-> NoValue(m)]}

\* Content that parses as JSON but not into the required shape: a value that
\* is not an object (a list, a number, a string), and an object without the
\* key the script reads (selected_answer, or category in the filter script).
Deviations(m) ==
    {[kind |-> "notobject", value |-> NoValue(m)],
     [kind |-> "nokey", value |-> NoValue(m)]}

\* str.upper() on one character
Upper(a) == CASE a = "a" -> "A" [] a = "b" -> "B" [] OTHER -> a

\* str.upper()
UpperText(s) == [i \in DOMAIN s |-> Upper(s[i])]

\* Fault: the two answers are compared as they are.
IsCorrectExact(ai_answer, correct_answer) == ai_answer = correct_answer

\* ai_answer.upper() == correct_answer.upper()
IsCorrect(ai_answer, correct_answer) ==
    UpperText(ai_answer) = UpperText(correct_answer)

\* ai_answer = json_data.get("selected_answer", "").strip()
AiAnswer(selected_answer) == Strip(selected_answer)

\* Fault: the text is compared with the empty string without being stripped.
IsBlankUnstripped(question_data) == question_data.question = <<>>

\* if not question.strip()
IsBlank(question_data) == Strip(question_data.question) = <<>>

\* ------------------------------------------- worker: process_single_question

InFlightPcs == {"taken", "running", "waiting", "failrec", "finishing"}

\* The tasks a pool thread is currently running.
InFlight == {j \in DOMAIN ipc : ipc[j] \in InFlightPcs}

\* Fault: a thread per task, whatever the pool size.
ThreadFreeAlways(busy, workers) == TRUE

\* A pool thread may take a task when fewer than max_workers threads of the
\* executor are busy.
ThreadFree(busy, workers) == Cardinality(busy) < workers

\* Fault: any pending task may be taken.
NextQueuedAny(j) == ipc[j] = "queued"

\* Fault: a task that failed is handed to a thread again.
NextQueuedOrFailed(j) ==
    \/ ipc[j] = "queued" /\ \A i \in 1..(j - 1) : ipc[i] # "queued"
    \/ ipc[j] = "done" /\ result[j] = Failure

\* Fault: the work queue is LIFO, the task taken is the newest pending.
NextQueuedLast(j) ==
    ipc[j] = "queued" /\ \A i \in (j + 1)..Len(ipc) : ipc[i] # "queued"

\* The executor's work queue is FIFO: the task taken is the oldest pending.
NextQueued(j) == ipc[j] = "queued" /\ \A i \in 1..(j - 1) : ipc[i] # "queued"

\* A thread of the pool takes the next task off the work queue.
Dequeue(j) ==
    /\ pc = "dispatch"
    /\ NextQueued(j)
    /\ ThreadFree(InFlight, num_workers)
    /\ ipc' = [ipc EXCEPT ![j] = "taken"]
    /\ UNCHANGED <<inputs, setup, pc, key_status, calls, response, result,
                   collections, timers, bar, counters, report, reports, monitor>>

\* "with result_lock:" can be entered: no thread holds the lock.  A block
\* that only reads and writes memory is one step, entered and left at once.
LockFree == result_lock = "free"

\* with result_lock: key_status[key_id] = "processing index+1"
StatusAtStart(status, task) ==
    [status EXCEPT ![KeyId(task.api_key)] = Processing(task.index + 1)]

Begin(j) ==
    /\ ipc[j] = "taken"
    /\ LockFree
    /\ key_status' = StatusAtStart(key_status, tasks[j])
    /\ ipc' = [ipc EXCEPT ![j] = "running"]
    /\ UNCHANGED <<inputs, setup, pc, calls, response, result, collections,
                   timers, bar, counters, report, reports, monitor>>

\* Fault: the record carries the 0-based position.
FailedRecordZeroBased(task, err) ==
    [index |-> task.index, question |-> task.question_data, error |-> err]

\* The except branch's record: failed_questions.append({...}) under the lock.
FailedRecord(task, err) ==
    [index |-> task.index + 1, question |-> task.question_data, error |-> err]

\* Fault: the failure is not appended.
RecordFailureDropped(failed, task, err) == failed

\* Fault: the list is replaced by the new record instead of appended to.
RecordFailureReplacing(failed, task, err) == <<FailedRecord(task, err)>>

\* Fault: the failure is appended twice.
RecordFailureTwice(failed, task, err) ==
    Append(Append(failed, FailedRecord(task, err)), FailedRecord(task, err))

RecordFailure(failed, task, err) == Append(failed, FailedRecord(task, err))

\* get_answer_from_ai up to the request: a blank question returns at once
\* (and the caller records the failure), anything else is sent.
CallAI(j) ==
    /\ ipc[j] = "running"
    /\ IF IsBlank(tasks[j].question_data)
       THEN /\ LockFree
            /\ failed_questions' = RecordFailure(failed_questions, tasks[j], "empty")
            /\ ipc' = [ipc EXCEPT ![j] = "failrec"]
            /\ result' = [result EXCEPT ![j] = Failure]
            /\ UNCHANGED calls
       ELSE /\ calls' = [calls EXCEPT ![j] = @ + 1]
            /\ ipc' = [ipc EXCEPT ![j] = "waiting"]
            /\ UNCHANGED <<failed_questions, result>>
    /\ UNCHANGED <<inputs, setup, pc, key_status, response, processed_questions,
                   category_results, timers, bar, counters, report, reports,
                   monitor>>

\* processed_questions.append({...}) of the evaluation script.
EvalRecord(task, ai_answer) ==
    [index |-> task.index + 1,
     correct_answer |-> task.question_data.answer,
     ai_answer |-> ai_answer,
     is_correct |-> IsCorrect(ai_answer, task.question_data.answer)]

\* processed_questions.append({...}) of the filter script.
FilterRecord(task, category) ==
    [index |-> task.index + 1,
     original_answer |-> task.question_data.answer,
     category |-> category]

\* Fault: the label's list is started afresh by every append.
AddCategoryReplacing(results, category, question_data) ==
    [c \in DOMAIN results \cup {category} |->
        IF c # category THEN results[c] ELSE <<question_data>>]

\* Fault: the question is appended to the label's list twice.
AddCategoryTwice(results, category, question_data) ==
    [c \in DOMAIN results \cup {category} |->
        IF c \in DOMAIN results /\ c # category THEN results[c]
        ELSE (IF c \in DOMAIN results THEN results[c] ELSE <<>>)
                 \o <<question_data, question_data>>]

\* category_results[category].append(question), creating the list if needed.
AddCategory(results, category, question_data) ==
    [c \in DOMAIN results \cup {category} |->
        IF c \in DOMAIN results /\ c # category THEN results[c]
        ELSE Append(IF c \in DOMAIN results THEN results[c] ELSE <<>>, question_data)]

\* json.loads succeeded and the value is a dict: the .get calls return the
\* value of the key or their default.
Parses(r) == r.kind \in {"ok", "nokey"}

\* json_data.get("selected_answer", "") (filter script: "category")
GetValue(r) == IF r.kind = "nokey" THEN NoValue(mode) ELSE r.value

\* What str(e) of the exception says about a call that did not succeed.
ErrorOf(r) == IF Parses(r) THEN "save" ELSE r.kind

\* The response arrived and parsed, and (evaluation script) the answer file
\* was written: the success is recorded under the lock.
RecordSuccess(j, r) ==
    /\ IF mode = "eval"
       THEN /\ processed_questions' =
                   Append(processed_questions,
                          EvalRecord(tasks[j], AiAnswer(GetValue(r))))
            /\ UNCHANGED category_results
       ELSE IF GetValue(r) \in Recognised
       THEN /\ category_results' =
                   AddCategory(category_results, GetValue(r), tasks[j].question_data)
            /\ processed_questions' =
                   Append(processed_questions, FilterRecord(tasks[j], GetValue(r)))
       ELSE UNCHANGED <<processed_questions, category_results>>
    /\ result' = [result EXCEPT ![j] = Success]
    /\ ipc' = [ipc EXCEPT ![j] = "finishing"]
    /\ UNCHANGED failed_questions

\* The rest of the try block once requests.post has returned or raised, the
\* outcome of the call being one of R.
\* saved: whether writing the answer file succeeded (evaluation script only).
RespondWith(j, R) ==
    /\ ipc[j] = "waiting"
    /\ LockFree
    /\ \E r \in R, saved \in BOOLEAN :
          /\ response' = [response EXCEPT ![j] = r]
          /\ IF Parses(r) /\ (saved \/ mode = "filter")
             THEN RecordSuccess(j, r)
             ELSE /\ failed_questions' =
                        RecordFailure(failed_questions, tasks[j], ErrorOf(r))
                  /\ ipc' = [ipc EXCEPT ![j] = "failrec"]
                  /\ result' = [result EXCEPT ![j] = Failure]
                  /\ UNCHANGED <<processed_questions, category_results>>
    /\ UNCHANGED <<inputs, setup, pc, key_status, calls, timers, bar, counters,
                   report, reports, monitor>>

\* The service answers in the required shape, answers with something that is
\* not JSON, or the call fails.
Respond(j) == RespondWith(j, Responses(mode))

\* The service answers with JSON of another shape.
RespondDeviating(j) == RespondWith(j, Deviations(mode))

\* with result_lock: key_status[key_id] = "index+1: failed - ..."
FailStatus(j) ==
    /\ ipc[j] = "failrec"
    /\ LockFree
    /\ key_status' =
          [key_status EXCEPT ![KeyId(tasks[j].api_key)] = FailedStatus(tasks[j].index + 1)]
    /\ ipc' = [ipc EXCEPT ![j] = "finishing"]
    /\ UNCHANGED <<inputs, setup, pc, calls, response, result, collections,
                   timers, bar, counters, report, reports, monitor>>

\* Fault: the counter is set to the increment instead of advanced by it.
BarUpdateSet(n, by) == by

\* Fault: the counter is advanced twice.
BarUpdateTwice(n, by) == n + by + by

\* progress_bar.update(by): tqdm advances its counter n by the argument.
BarUpdate(n, by) == n + by

\* progress_bar.update(1), the clear_status thread is started, and the
\* function returns its result: the future is done.
Finish(j) ==
    /\ ipc[j] = "finishing"
    /\ progress_n' = BarUpdate(progress_n, 1)
    /\ timers' = timers \cup {j}
    /\ ipc' = [ipc EXCEPT ![j] = "done"]
    /\ UNCHANGED <<inputs, setup, pc, key_status, calls, response, result,
                   collections, progress_disable, counters, report, reports,
                   monitor>>

\* Fault: the status is left as it is.
StatusAfterClearKept(status, task) == status

\* with result_lock: key_status[key_id] = idle
StatusAfterClear(status, task) == [status EXCEPT ![KeyId(task.api_key)] = Idle]

\* clear_status, after its sleep
ClearStatus(j) ==
    /\ j \in timers
    /\ LockFree
    /\ key_status' = StatusAfterClear(key_status, tasks[j])
    /\ timers' = timers \ {j}
    /\ UNCHANGED <<inputs, setup, pc, ipc, calls, response, result, collections,
                   bar, counters, report, reports, monitor>>

\* ---------------------------------------------- main thread: collecting

\* Fault: a failed item is counted as processed.
TallyFailureAsProcessed(c, res) ==
    IF res.processed
    THEN [c EXCEPT !.processed = @ + 1,
                   !.success = IF res.saved THEN @ + 1 ELSE @]
    ELSE [c EXCEPT !.processed = @ + 1]

\* Fault: a lost update, the success counter is written from a stale read.
TallyLostUpdate(c, res) ==
    IF res.processed
    THEN [c EXCEPT !.processed = @ + 1,
                   !.success = IF res.saved THEN 1 ELSE @]
    ELSE [c EXCEPT !.error = @ + 1]

\* Fault: a saved result is not counted as a success.
TallySavedIgnored(c, res) ==
    IF res.processed
    THEN [c EXCEPT !.processed = @ + 1]
    ELSE [c EXCEPT !.error = @ + 1]

\* The body of the as_completed loop on one result tuple.
Tally(c, res) ==
    IF res.processed
    THEN [c EXCEPT !.processed = @ + 1,
                   !.success = IF res.saved THEN @ + 1 ELSE @]
    ELSE [c EXCEPT !.error = @ + 1]

\* One iteration of the as_completed loop: a finished future is yielded once
\* and the counters advance under the lock.
Consume(j) ==
    /\ pc = "dispatch"
    /\ ipc[j] = "done"
    /\ LockFree
    /\ LET c == Tally([processed |-> processed_count, success |-> success_count,
                       error |-> error_count], result[j])
       IN  /\ processed_count' = c.processed
           /\ success_count' = c.success
           /\ error_count' = c.error
    /\ ipc' = [ipc EXCEPT ![j] = "consumed"]
    /\ UNCHANGED <<inputs, setup, pc, key_status, calls, response, result,
                   collections, timers, bar, report, reports, monitor>>

\* The loop is exhausted, the executor shuts down, progress_bar.close().
CloseBar ==
    /\ pc = "dispatch"
    /\ \A j \in DOMAIN ipc : ipc[j] = "consumed"
    /\ progress_disable' = TRUE
    /\ pc' = "reports"
    /\ UNCHANGED <<inputs, setup, key_status, ipc, calls, response, result,
                   collections, timers, progress_n, counters, report, reports,
                   monitor>>

\* ------------------------------------------------------------ the reports

\* f"{part / whole * 100:.2f}" (scale 100) or ":.1f" (scale 10): the
\* percentage as the integer number of hundredths (tenths) it is printed with.
Percent(part, whole, scale) == (part * 100 * scale * 2 + whole) \div (2 * whole)

\* Fault: every processed question is counted as correct.
CorrectAnswersAll(processed) == Len(processed)

\* sum(1 for q in processed_questions if q["is_correct"])
CorrectAnswers(processed) ==
    Cardinality({p \in DOMAIN processed : processed[p].is_correct})

IsWrong(q) == ~q.is_correct

\* [q for q in processed_questions if not q["is_correct"]]
WrongQuestions(processed) == SelectSeq(processed, IsWrong)

\* One section of the wrong-answer report.
WrongEntry(q) ==
    [index |-> q.index, correct_answer |-> q.correct_answer, ai_answer |-> q.ai_answer]

\* One section of the failed-questions report.
FailedEntry(q) ==
    [index |-> q.index, error |-> q.error, question |-> q.question.question]

\* The failed-questions report: written only if there is a failed question.
FailedDigest(failed) == [p \in DOMAIN failed |-> FailedEntry(failed[p])]

\* generate_reports of the evaluation script.  c holds the three counters.
\* With no processed question the second row of the accuracy table divides
\* by zero inside the try block: the accuracy report stays cut off there and
\* neither of the other two reports is written.
EvalReports(processed, failed, total, c, usage) ==
    LET correct_answers == CorrectAnswers(processed)
        total_answers == Len(processed)
        accuracy == IF total_answers > 0
                    THEN Percent(correct_answers, total_answers, 100) ELSE 0
        wrong_answers == total_answers - correct_answers
        wrong_questions == WrongQuestions(processed)
        statistics(wrong_percent) ==
            [total |-> total, processed |-> c.processed, success |-> c.success,
             error |-> c.error, correct |-> correct_answers,
             answers |-> total_answers, accuracy |-> accuracy,
             wrong |-> wrong_answers, wrong_percent |-> wrong_percent,
             usage |-> usage]
    IN  IF total_answers = 0
        THEN [files |-> {"accuracy"}, statistics |-> statistics(Unset),
              wrong_questions |-> <<>>, failed_questions |-> <<>>,
              error |-> TRUE]
        ELSE [files |-> {"accuracy"}
                        \cup (IF wrong_questions # <<>> THEN {"wrong"} ELSE {})
                        \cup (IF failed # <<>> THEN {"failed"} ELSE {}),
              statistics |-> statistics(Percent(wrong_answers, total_answers, 100)),
              wrong_questions |->
                  [p \in DOMAIN wrong_questions |-> WrongEntry(wrong_questions[p])],
              failed_questions |-> FailedDigest(failed),
              error |-> FALSE]

\* generate_reports of the filter script.
FilterReports(processed, failed, total, c, usage, categories) ==
    LET category_stats == [k \in DOMAIN categories |-> Len(categories[k])]
        total_classified == SumOver(category_stats, DOMAIN category_stats)
        unrelated_count == total - total_classified - c.error
    IN  [files |-> {"classification"}
                   \cup (IF failed # <<>> THEN {"failed"} ELSE {}),
         statistics |->
             [total |-> total, processed |-> c.processed, success |-> c.success,
              error |-> c.error, category_stats |-> category_stats,
              percentage |->
                  [k \in DOMAIN categories |->
                      IF total_classified > 0
                      THEN Percent(category_stats[k], total_classified, 10)
                      ELSE 0],
              unrelated |-> IF unrelated_count > 0 THEN unrelated_count ELSE 0,
              usage |-> usage],
         failed_questions |-> FailedDigest(failed),
         error |-> FALSE]

\* What generate_reports writes, called on the state of the run.
GeneratedReports ==
    LET c == [processed |-> processed_count, success |-> success_count,
              error |-> error_count]
    IN  IF mode = "eval"
        THEN EvalReports(processed_questions, failed_questions, N, c,
                         key_usage_count)
        ELSE FilterReports(processed_questions, failed_questions, N, c,
                           key_usage_count, category_results)

\* Fault: the entries are popped off the list as they are written.
Drained(list) == <<>>

\* A list handed to generate_reports, after the call: it is iterated,
\* counted and filtered into new lists, never written to.
Iterated(list) == list

\* Fault: an exception raised while the reports are written is not caught.
AfterReportsRaising(written) == IF written.error THEN "crashed" ELSE "finalize"

\* Where process_questions goes on after the call: generate_reports catches
\* and prints every exception raised in its body, and returns.
AfterReports(written) == "finalize"

\* generate_reports(...)
GenerateReports ==
    /\ pc = "reports"
    /\ reports' = GeneratedReports
    /\ processed_questions' = Iterated(processed_questions)
    /\ failed_questions' = Iterated(failed_questions)
    /\ pc' = AfterReports(reports')
    /\ UNCHANGED <<inputs, setup, key_status, ipc, calls, response, result,
                   category_results, timers, bar, counters, report, monitor>>

\* The final statistics of the run; the accuracy lines are printed only if
\* processed_questions is not empty.
Finalize ==
    /\ pc = "finalize"
    /\ LET answers == Len(processed_questions)
           correct == CorrectAnswers(processed_questions)
           shown == mode = "eval" /\ answers > 0
       IN  report' =
               [kind |-> "stats", total |-> N, processed |-> processed_count,
                success |-> success_count, error |-> error_count,
                usage |-> key_usage_count,
                answers |-> IF shown THEN answers ELSE Unset,
                correct |-> IF shown THEN correct ELSE Unset,
                accuracy |-> IF shown THEN Percent(correct, answers, 100) ELSE Unset,
                wrong |-> IF shown THEN answers - correct ELSE Unset,
                wrong_percent |->
                    IF shown THEN Percent(answers - correct, answers, 100) ELSE Unset]
    /\ pc' = "returned"
    /\ UNCHANGED <<inputs, setup, key_status, ipc, calls, response, result,
                   collections, timers, bar, counters, reports, monitor>>

\* The main thread and the pool threads.
Next ==
    \/ LoadQuestions
    \/ Setup
    \/ AssignTasks
    \/ Submit
    \/ \E j \in DOMAIN ipc : Dequeue(j)
    \/ \E j \in DOMAIN ipc : Begin(j)
    \/ \E j \in DOMAIN ipc : CallAI(j)
    \/ \E j \in DOMAIN ipc : Respond(j)
    \/ \E j \in DOMAIN ipc : FailStatus(j)
    \/ \E j \in DOMAIN ipc : Finish(j)
    \/ \E j \in DOMAIN ipc : Consume(j)
    \/ CloseBar
    \/ GenerateReports
    \/ Finalize

Spec == Init /\ [][Next]_vars

\* The same with the clear_status threads running.  A clear_status step
\* writes key_status and timers only, and no step of Next reads either to
\* decide what it does.
TimerStep == \E j \in DOMAIN ipc : ClearStatus(j)

NextTimers == Next \/ TimerStep

SpecTimers == Init /\ [][NextTimers]_vars

\* ------------------------------------------------- the display_status thread

\* Fault: the loop condition is always true.
LoopExitsNever(disable) == FALSE

\* while not progress_bar.disable: the loop is left once the bar is closed.
LoopExits(disable) == disable

\* The loop condition is evaluated.
MonitorTest ==
    /\ mpc = "test"
    /\ mpc' = IF LoopExits(progress_disable) THEN "exited" ELSE "snapshot"
    /\ UNCHANGED <<inputs, setup, pc, key_status, ipc, calls, response, result,
                   collections, timers, bar, counters, report, reports,
                   result_lock, completed>>

\* Fault: the list is emptied once it has been counted.
SnapshotClearing(list) == <<>>

\* len(processed_questions) and the sum over it: the list is only read.
Snapshot(list) == list

\* with result_lock: completed = progress_bar.n, and the counts over
\* processed_questions; then "if completed > 0".
MonitorSnapshot ==
    /\ mpc = "snapshot"
    /\ LockFree
    /\ completed' = progress_n
    /\ processed_questions' = Snapshot(processed_questions)
    /\ mpc' = IF progress_n > 0 THEN "render" ELSE "sleep"
    /\ UNCHANGED <<inputs, setup, pc, key_status, ipc, calls, response, result,
                   failed_questions, category_results, timers, bar, counters,
                   report, reports, result_lock>>

\* The console is cleared, the progress lines are printed, and the lock is
\* taken for the loop that prints one line per entry of key_status.
MonitorPrintStatus ==
    /\ mpc = "render"
    /\ LockFree
    /\ result_lock' = "monitor"
    /\ mpc' = "printing"
    /\ UNCHANGED <<inputs, setup, pc, key_status, ipc, calls, response, result,
                   collections, timers, bar, counters, report, reports,
                   completed>>

\* The status lines are written: the lock is released, progress_bar.refresh().
MonitorRelease ==
    /\ mpc = "printing"
    /\ result_lock' = "free"
    /\ mpc' = "sleep"
    /\ completed' = 0
    /\ UNCHANGED <<inputs, setup, pc, key_status, ipc, calls, response, result,
                   collections, timers, bar, counters, report, reports>>

\* time.sleep(2) is over.
MonitorWake ==
    /\ mpc = "sleep"
    /\ mpc' = "test"
    /\ completed' = 0
    /\ UNCHANGED <<inputs, setup, pc, key_status, ipc, calls, response, result,
                   collections, timers, bar, counters, report, reports,
                   result_lock>>

MonitorStep ==
    \/ MonitorTest
    \/ MonitorSnapshot
    \/ MonitorPrintStatus
    \/ MonitorRelease
    \/ MonitorWake

\* Runs in which the service may also answer with JSON of another shape:
\* pairwise distinct keys, as many as max_workers, and no blank question.
InitShapes ==
    /\ Init
    /\ max_workers = MaxWorkersCfg
    /\ api_keys = [i \in 1..MaxKeys |-> PoolKey("distinct", i)]
    /\ \A p \in DOMAIN questions : ~IsBlank(questions[p])

ShapeStep == \E j \in DOMAIN ipc : RespondDeviating(j)

NextShapes == Next \/ ShapeStep

SpecShapes == InitShapes /\ [][NextShapes]_vars

\* The steps the main thread takes on its own.
MainStep ==
    \/ LoadQuestions
    \/ Setup
    \/ AssignTasks
    \/ Submit
    \/ \E j \in DOMAIN ipc : Consume(j)
    \/ CloseBar
    \/ GenerateReports
    \/ Finalize

\* The steps of process_single_question on task j that need nothing but a
\* thread of the pool to run; its requests.post returns when the service
\* answers or the connection fails, and the call sets no timeout.
LocalStep(j) ==
    /\ j \in DOMAIN ipc
    /\ Dequeue(j) \/ Begin(j) \/ CallAI(j) \/ FailStatus(j) \/ Finish(j)

\* Runs with pairwise distinct keys and no blank question in which every
\* thread keeps running but the service is free never to answer a request.
SpecSilent ==
    /\ InitShapes
    /\ [][Next]_vars
    /\ WF_vars(MainStep)
    /\ \A j \in 1..MaxItems : WF_vars(LocalStep(j))

\* The main thread, the pool threads and the display_status thread, on runs
\* with pairwise distinct keys and no blank question.
NextMonitor == Next \/ MonitorStep

SpecMonitor == InitShapes /\ [][NextMonitor]_vars

\* The same, the display_status thread being scheduled again and again: its
\* console writes return and its sleep ends.  Nothing is assumed of the
\* other threads or of the service.
SpecMonitorFair == SpecMonitor /\ WF_vars(MonitorStep)

\* Every thread of the program: the main thread, the pool threads, the
\* clear_status threads and the display_status thread, on runs with pairwise
\* distinct keys and no blank question.
NextThreads == Next \/ TimerStep \/ MonitorStep

SpecThreads == InitShapes /\ [][NextThreads]_vars

\* The characters answers are made of in the runs that exercise is_correct:
\* a letter in both cases, another letter, whitespace.
AnswerChars == {"a", "A", "b", " "}

AnswerTexts == SeqsUpTo(AnswerChars, MaxAnswerLen)

\* An evaluation run on one key of one question whose expected answer is
\* any text of AnswerTexts.
InitAnswers ==
    /\ InitOver({<<[question |-> <<"q">>, answer |-> a]>> : a \in AnswerTexts})
    /\ mode = "eval"
    /\ max_workers = 1
    /\ api_keys = <<PoolKey("distinct", 1)>>

\* The service answers with any text of AnswerTexts as selected_answer.
AnswerStep ==
    \E j \in DOMAIN ipc :
        RespondWith(j, {[kind |-> "ok", value |-> a] : a \in AnswerTexts})

NextAnswers == Next \/ AnswerStep

SpecAnswers == InitAnswers /\ [][NextAnswers]_vars

\* ------------------------------------------------------------- properties

Occurrences(seq, j) == Cardinality({p \in DOMAIN seq : seq[p].index = j})

\* How many outcome records item j has, over both collections.
RecordedTimes(j) ==
    Occurrences(processed_questions, j) + Occurrences(failed_questions, j)

Assigned == pc \in {"submit", "dispatch", "reports", "finalize", "returned"}

KeysDistinct == \A a, b \in DOMAIN api_keys : a # b => api_keys[a] # api_keys[b]

\* C1: when process_questions returns, every item has exactly one result,
\* success count + failure count = N, and (evaluation script) every item
\* index is recorded exactly once over processed_questions and
\* failed_questions; in the filter script no index is recorded twice.
C1_ExactlyOneOutcome ==
    (pc = "returned" /\ N > 0) =>
        /\ success_count + error_count = N
        /\ \A j \in 1..N : result[j].set
        /\ \A j \in 1..N : RecordedTimes(j) <= 1
        /\ mode = "eval" =>
              /\ \A j \in 1..N : RecordedTimes(j) = 1
              /\ Len(processed_questions) + Len(failed_questions) = N

\* A run of three items on two workers that returned with successes and
\* failures, the first recorded outcome not being item 1's.
C1_Witness ==
    /\ pc = "returned" /\ mode = "eval" /\ N = 3 /\ num_workers = 2
    /\ Len(processed_questions) = 2 /\ Len(failed_questions) = 1
    /\ processed_questions[1].index = 2

\* C2: a failing item never aborts the run or blocks the others: an
\* exception leaves the function only before any task exists, the dispatch
\* phase always has a step to take, and at return there are N results with
\* the failures, and only them, in failed_questions and counted in
\* error_count.
C2_FailureIsolated ==
    /\ pc = "crashed" => ipc = <<>>
    /\ pc = "dispatch" => ENABLED Next
    /\ (pc = "returned" /\ N > 0) =>
          /\ success_count + error_count = N
          /\ error_count = Len(failed_questions)
          /\ \A j \in 1..N :
                /\ result[j] = Failure <=> Occurrences(failed_questions, j) = 1
                /\ result[j] = Failure => Occurrences(processed_questions, j) = 0
          /\ success_count = Cardinality({j \in 1..N : result[j] = Success})

\* An evaluation run that returned with one answer-file write failure, one
\* transport or parse failure and one success.
C2_Witness ==
    /\ pc = "returned" /\ mode = "eval" /\ N = 3
    /\ \E p \in DOMAIN failed_questions : failed_questions[p].error = "save"
    /\ \E p \in DOMAIN failed_questions :
          failed_questions[p].error \in {"transport", "malformed"}
    /\ Len(processed_questions) = 1

\* C3: once computed, num_workers is the minimum of max_workers, K and N:
\* it is at most each of them and equal to one of them.
C3_WorkersIsMin ==
    num_workers # Unset =>
        /\ num_workers <= max_workers
        /\ num_workers <= K
        /\ num_workers <= N
        /\ num_workers \in {max_workers, K, N}

\* The item count is the strict minimum.
C3_Witness == num_workers = N /\ N < K /\ N < max_workers

\* C4 (as claimed): with no API key or no question, process_questions does
\* not end in an exception, starts no task, and a return reports the empty
\* input.
C4_Claim ==
    (K = 0 \/ N = 0) =>
        /\ pc # "crashed"
        /\ ipc = <<>>
        /\ pc = "returned" => report.kind = "empty"

\* C5: the item at 0-based position i is assigned the key at position
\* i mod num_workers of the original key list, in every state from the
\* assignment on, whatever has completed; the keys counted are the first
\* num_workers keys of the list.
C5_RoundRobin ==
    Assigned =>
        /\ \A j \in 1..N :
              /\ tasks[j].index = j - 1
              /\ tasks[j].api_key = api_keys[((j - 1) % num_workers) + 1]
        /\ DOMAIN key_usage_count = {api_keys[p] : p \in 1..num_workers}

\* Three items on two workers, the third finished and counted while the
\* first, which has the same key, has not answered yet.
C5_Witness ==
    /\ pc = "dispatch" /\ N = 3 /\ num_workers = 2 /\ KeysDistinct
    /\ ipc[3] = "consumed" /\ ipc[1] = "waiting"
    /\ tasks[3].api_key = tasks[1].api_key

\* C6: with pairwise distinct keys, every usage count is the floor or the
\* ceiling of N / num_workers and two counts differ by at most 1.
C6_Balanced ==
    (Assigned /\ KeysDistinct) =>
        /\ \A k \in DOMAIN key_usage_count :
              key_usage_count[k] \in
                  {N \div num_workers, (N + num_workers - 1) \div num_workers}
        /\ \A a, b \in DOMAIN key_usage_count :
              key_usage_count[a] - key_usage_count[b] <= 1

\* A finished run in which two distinct keys were used 2 and 1 times.
C6_Witness ==
    /\ pc = "returned" /\ KeysDistinct
    /\ \E a, b \in DOMAIN key_usage_count :
          key_usage_count[a] = 2 /\ key_usage_count[b] = 1

\* C7: the usage counts sum to N, and each key's count is the number of
\* items assigned to it.
C7_UsageSum ==
    Assigned =>
        /\ SumOver(key_usage_count, DOMAIN key_usage_count) = N
        /\ \A k \in DOMAIN key_usage_count :
              key_usage_count[k] =
                  Cardinality({j \in 1..N : tasks[j].api_key = k})

\* A finished run of three items over a key list that repeats one key.
C7_Witness ==
    /\ pc = "returned" /\ N = 3 /\ K = 2 /\ num_workers = 2 /\ ~KeysDistinct

\* C8: the number of in-flight items never exceeds max_workers, K or N.
C8_BoundedInFlight ==
    /\ Cardinality(InFlight) <= max_workers
    /\ Cardinality(InFlight) <= K
    /\ Cardinality(InFlight) <= N

\* Both workers busy while a third item waits in the queue.
C8_Witness ==
    /\ Cardinality(InFlight) = 2 /\ num_workers = 2
    /\ \E j \in DOMAIN ipc : ipc[j] = "queued"

\* C9 (as claimed, for pairwise distinct keys): no two in-flight items are
\* processed under the same credential.
C9_Claim ==
    KeysDistinct =>
        \A i, j \in InFlight : i # j => tasks[i].api_key # tasks[j].api_key

\* C9 (amended): items that share a credential are started in index order;
\* the later one never leaves the queue before the earlier one has.
C9_SameKeyStartedInOrder ==
    \A i, j \in DOMAIN ipc :
        (i < j /\ tasks[i].api_key = tasks[j].api_key /\ ipc[j] # "queued")
            => ipc[i] # "queued"

\* Two items in flight under one credential, the key strings being
\* pairwise distinct.
C9_Witness ==
    /\ KeysDistinct
    /\ \E i, j \in InFlight : i < j /\ tasks[i].api_key = tasks[j].api_key

\* The counters a run on one worker ends with when every request succeeds:
\* the items are processed one after the other, in index order.
RECURSIVE SequentialRun(_, _)
SequentialRun(c, j) ==
    IF j > N THEN c
    ELSE IF IsBlank(questions[j])
    THEN SequentialRun([c EXCEPT !.completed = @ + 1, !.error = @ + 1,
                                 !.failed = @ + 1], j + 1)
    ELSE SequentialRun([c EXCEPT !.completed = @ + 1, !.processed = @ + 1,
                                 !.success = @ + 1], j + 1)

SequentialFinal ==
    SequentialRun([completed |-> 0, processed |-> 0, success |-> 0,
                   error |-> 0, failed |-> 0], 1)

\* No request failed and no answer file failed to be written.
ServiceAlwaysSucceeded ==
    \A p \in DOMAIN failed_questions : failed_questions[p].error = "empty"

\* C10: when every request succeeds, a run ends with the counters of the
\* sequential run, whatever the number of workers and the interleaving:
\* completed, processed, success and error counts, the number of failure
\* records, (evaluation script) the number of success records, and usage
\* counts that follow the assignment rule.
C10_SameAsSequential ==
    (pc = "returned" /\ N > 0 /\ ServiceAlwaysSucceeded) =>
        /\ progress_n = SequentialFinal.completed
        /\ processed_count = SequentialFinal.processed
        /\ success_count = SequentialFinal.success
        /\ error_count = SequentialFinal.error
        /\ Len(failed_questions) = SequentialFinal.failed
        /\ mode = "eval" => Len(processed_questions) = SequentialFinal.success
        /\ \A k \in DOMAIN key_usage_count :
              key_usage_count[k] =
                  Cardinality({j \in 1..N :
                      api_keys[((j - 1) % num_workers) + 1] = k})

\* A run on two workers in which every request succeeded and the outcomes
\* were recorded out of index order: item 1 last.
C10_Witness ==
    /\ pc = "returned" /\ mode = "eval" /\ N = 3 /\ num_workers = 2
    /\ ServiceAlwaysSucceeded
    /\ Len(processed_questions) = 3
    /\ processed_questions[1].index = 2
    /\ processed_questions[2].index = 3

\* The items whose remote call raised a transport error.
TransportFailed == {j \in DOMAIN response : response[j].kind = "transport"}

\* Every other item was answered in the required shape and its answer saved.
OthersSucceeded ==
    \A j \in DOMAIN response \ TransportFailed :
        response[j].kind = "ok" /\ result[j].saved

\* C11: when the calls of the items in F raise a transport error and all
\* other calls succeed, the run returns with N - |F| successes and |F|
\* failures, in the counters and in the final statistics, and
\* failed_questions holds exactly one record per item of F, with the item's
\* 1-based index and its original content, and no other record.
C11_TransportFailures ==
    (pc = "returned" /\ N > 0 /\ OthersSucceeded) =>
        /\ success_count = N - Cardinality(TransportFailed)
        /\ error_count = Cardinality(TransportFailed)
        /\ report.success = N - Cardinality(TransportFailed)
        /\ report.error = Cardinality(TransportFailed)
        /\ Len(failed_questions) = Cardinality(TransportFailed)
        /\ \A j \in TransportFailed :
              \E p \in DOMAIN failed_questions :
                  /\ failed_questions[p].index = j
                  /\ failed_questions[p].question = questions[j]
                  /\ failed_questions[p].error = "transport"

\* Of three items only the last one's call failed.
C11_Witness ==
    /\ pc = "returned" /\ N = 3 /\ OthersSucceeded
    /\ TransportFailed = {3}
    /\ Len(failed_questions) = 1 /\ failed_questions[1].index = 3

\* C12: an item whose text is blank after stripping never has a request
\* sent for it and ends as a failure recorded with the empty-input error;
\* when the run returns, the number of requests made is the number of items
\* with non-blank text.
C12_BlankNeverSent ==
    /\ \A j \in DOMAIN calls :
          IsBlank(questions[j]) => calls[j] = 0 /\ response[j].kind = "none"
    /\ (pc = "returned" /\ N > 0) =>
          /\ SumOver(calls, DOMAIN calls) =
                 Cardinality({j \in 1..N : Strip(questions[j].question) # <<>>})
          /\ \A j \in 1..N :
                Strip(questions[j].question) = <<>> =>
                    /\ result[j] = Failure
                    /\ \E p \in DOMAIN failed_questions :
                          /\ failed_questions[p].index = j
                          /\ failed_questions[p].error = "empty"

\* A returned run of three items, the second one blank, with two requests.
C12_Witness ==
    /\ pc = "returned" /\ N = 3
    /\ questions[2].question = <<" ">> /\ questions[1].question = <<"q">>
    /\ questions[3].question = <<"q">>
    /\ SumOver(calls, DOMAIN calls) = 2

\* The response kinds that deviate from the required structured shape.
DeviatingKinds == {"malformed", "notobject", "nokey"}

\* C13 (as claimed): an item whose response is not parseable JSON, is not a
\* JSON object, or lacks the key the script requires, ends as a failure:
\* once its response has been handled, its result is the failure tuple and
\* it has a record in failed_questions.
C13_Claim ==
    \A j \in DOMAIN response :
        (response[j].kind \in DeviatingKinds /\ result[j].set) =>
            /\ result[j] = Failure
            /\ \E p \in DOMAIN failed_questions : failed_questions[p].index = j

\* Every item was sent, answered in the required shape and saved.
AllCallsSucceeded ==
    \A j \in DOMAIN response : response[j].kind = "ok" /\ result[j].saved

\* The items whose recorded answer is the expected one, letter case aside.
MatchingItems ==
    {j \in 1..N :
        \E p \in DOMAIN processed_questions :
            /\ processed_questions[p].index = j
            /\ UpperText(processed_questions[p].ai_answer) =
                  UpperText(questions[j].answer)}

\* pct is part / whole * 100 to two decimals (in hundredths of a percent).
IsPercentOf(pct, part, whole) ==
    /\ 2 * (pct * whole - part * 10000) <= whole
    /\ 2 * (part * 10000 - pct * whole) <= whole

\* C14: in the evaluation script, when every call succeeds, the accuracy
\* report and the final statistics both give N processed, a correct count
\* equal to the number of items whose answer matches the expected one, an
\* incorrect count of N minus that, and accuracy = correct / N * 100.
C14_EvalStatistics ==
    (pc = "returned" /\ N > 0 /\ mode = "eval" /\ AllCallsSucceeded) =>
        LET correct == Cardinality(MatchingItems)
            st == reports.statistics
        IN  /\ st.total = N /\ st.processed = N /\ st.success = N /\ st.error = 0
            /\ st.answers = N
            /\ st.correct = correct
            /\ st.wrong = N - correct
            /\ IsPercentOf(st.accuracy, correct, N)
            /\ IsPercentOf(st.wrong_percent, N - correct, N)
            /\ report.total = N /\ report.processed = N /\ report.error = 0
            /\ report.correct = correct
            /\ report.wrong = N - correct
            /\ IsPercentOf(report.accuracy, correct, N)
            /\ ~reports.error

\* Three items answered, two of them correctly: 66.67 %.
C14_Witness ==
    /\ pc = "returned" /\ mode = "eval" /\ N = 3 /\ AllCallsSucceeded
    /\ Cardinality(MatchingItems) = 2
    /\ reports.statistics.accuracy = 6667

\* The main thread has left the executor block: every worker has returned.
DispatchOver == pc \in {"reports", "finalize", "returned"}

\* C15: the completed count progress_bar.n never decreases, never exceeds
\* N, and is N once the dispatch phase of process_questions is over.
C15_CompletedCount ==
    /\ [](progress_n <= N /\ (DispatchOver => progress_n = N))
    /\ [][progress_n' >= progress_n]_vars

\* Two of three items completed while the third is still being answered.
C15_Witness ==
    /\ pc = "dispatch" /\ N = 3 /\ progress_n = 2
    /\ \E j \in DOMAIN ipc : ipc[j] = "waiting"

\* The state of item j: Pending until a pool thread takes it, InFlight until
\* its outcome is recorded and its result tuple built, then Classified or
\* Failed.
ItemState(j) ==
    IF result[j].set
    THEN IF result[j].processed THEN "Classified" ELSE "Failed"
    ELSE IF ipc[j] = "queued" THEN "Pending" ELSE "InFlight"

\* The outcome recorded for item j: its result tuple and its records.
RecordedOutcome(j) ==
    <<result[j],
      {processed_questions[p] :
          p \in {q \in DOMAIN processed_questions : processed_questions[q].index = j}},
      {failed_questions[p] :
          p \in {q \in DOMAIN failed_questions : failed_questions[q].index = j}}>>

\* C16: in every step, a Pending item stays Pending or becomes InFlight, an
\* InFlight item never becomes Pending again, and a Classified or Failed
\* item keeps its state and its recorded outcome.
C16_ItemStateMachine ==
    [][\A j \in DOMAIN ipc :
          /\ ItemState(j) = "Pending" => ItemState(j)' \in {"Pending", "InFlight"}
          /\ ItemState(j) = "InFlight" => ItemState(j)' # "Pending"
          /\ ItemState(j) \in {"Classified", "Failed"} =>
                /\ ItemState(j)' = ItemState(j)
                /\ RecordedOutcome(j)' = RecordedOutcome(j)]_vars

\* One item failed, one classified and one in flight at the same time.
C16_Witness ==
    /\ pc = "dispatch" /\ N = 3
    /\ ItemState(1) = "Failed" /\ ItemState(2) = "InFlight"
    /\ ItemState(3) = "Classified"

\* How far process_single_question has got for a task.
Stage(p) ==
    CASE p = "queued" -> 0 [] p = "taken" -> 1 [] p = "running" -> 2
      [] p = "waiting" -> 3 [] p = "failrec" -> 4 [] p = "finishing" -> 5
      [] p = "done" -> 6 [] p = "consumed" -> 7

\* C17: process_single_question runs once per item, under the one key of
\* the item's task: its execution never starts over, the key of a task
\* never changes, at most one request is sent per item, and an item that
\* failed is not sent again.
C17_ProcessedOnce ==
    /\ [](\A j \in DOMAIN calls : calls[j] <= 1)
    /\ [][\A j \in DOMAIN ipc :
             /\ Stage(ipc[j]') >= Stage(ipc[j])
             /\ tasks[j]' = tasks[j]
             /\ result[j] = Failure => calls[j]' = calls[j]]_vars

\* A returned run in which an item's only request failed.
C17_Witness ==
    /\ pc = "returned" /\ N = 3
    /\ \E j \in DOMAIN response : response[j].kind = "transport" /\ calls[j] = 1
    /\ \A j \in DOMAIN ipc : ipc[j] = "consumed"

\* C18 (as claimed): whether or not the service answers, every item that
\* was sent gets its outcome and process_questions returns.
C18_Claim ==
    /\ \A j \in 1..MaxItems :
          (j \in DOMAIN ipc /\ ipc[j] = "waiting") ~> (j \in DOMAIN result /\ result[j].set)
    /\ <>(pc = "returned")

\* generate_reports has run.
ReportsWritten == pc = "finalize" \/ (pc = "returned" /\ N > 0)

\* C19: generate_reports leaves the counters, the outcome collections and
\* the usage map as they were, so that generating the reports again from the
\* state it leaves behind, at any later point of the run, gives the counts,
\* percentages and digests that were written.
C19_ReportingIdempotent ==
    /\ [](ReportsWritten => reports = GeneratedReports)
    /\ [][pc = "reports" =>
             /\ UNCHANGED <<counters, collections, key_usage_count>>
             /\ reports' = GeneratedReports']_vars

\* An evaluation run whose three reports were all written.
C19_Witness ==
    /\ pc = "returned" /\ mode = "eval" /\ N = 3
    /\ reports.files = {"accuracy", "wrong", "failed"}
    /\ Len(reports.wrong_questions) = 1 /\ Len(reports.failed_questions) = 1

\* C20 (as claimed): whenever generate_reports has run on a state with at
\* least one failed question, the failed-questions report is written with
\* one section, carrying the error, per record of failed_questions, in
\* order; in the evaluation script the wrong-answer report has one section
\* per processed question whose is_correct is false.
C20_Claim ==
    (ReportsWritten /\ failed_questions # <<>>) =>
        /\ "failed" \in reports.files
        /\ Len(reports.failed_questions) = Len(failed_questions)
        /\ \A p \in DOMAIN failed_questions :
              /\ reports.failed_questions[p].index = failed_questions[p].index
              /\ reports.failed_questions[p].error = failed_questions[p].error
        /\ mode = "eval" =>
              LET wrong == {p \in DOMAIN processed_questions :
                               ~processed_questions[p].is_correct}
              IN  /\ Len(reports.wrong_questions) = Cardinality(wrong)
                  /\ \A p \in wrong :
                        \E q \in DOMAIN reports.wrong_questions :
                            reports.wrong_questions[q].index =
                                processed_questions[p].index
                  /\ wrong # {} => "wrong" \in reports.files

\* The run state shared by the threads.
SharedState == <<progress_n, counters, key_status, collections>>

\* C21 (as claimed): every write to the shared run state is made by a
\* thread that holds result_lock: while the lock stays in the hands of
\* another thread, here display_status printing the status lines, no step
\* changes the completed counter, the success and error counters, the
\* status map or an outcome collection.
C21_Claim ==
    [][(result_lock = "monitor" /\ result_lock' = "monitor")
          => UNCHANGED SharedState]_vars

\* The items the main thread has counted.
Counted == {j \in DOMAIN ipc : ipc[j] = "consumed"}

\* The question of item j is in the list of some classification label.
InCategoryList(j) ==
    \E c \in DOMAIN category_results :
        \E p \in DOMAIN category_results[c] :
            category_results[c][p] = tasks[j].question_data

\* In how many outcome collections item j has a record, processed_questions
\* being the success list of the evaluation script and category_results
\* holding the lists by label of the filter script.
CollectionsHolding(j) ==
    IF mode = "eval"
    THEN RecordedTimes(j)
    ELSE Occurrences(failed_questions, j) + (IF InCategoryList(j) THEN 1 ELSE 0)

\* C22 (as claimed): every counted item has a record in exactly one
\* outcome collection: the success list or the failure list in evaluation
\* mode, the list of its label (or the failure list) in filter mode.
C22_Claim == \A j \in Counted : CollectionsHolding(j) = 1

\* The records of processed_questions that carry label c.
Labelled(c) ==
    {p \in DOMAIN processed_questions : processed_questions[p].category = c}

\* C22 (amended): an item whose outcome is recorded has one record in
\* failed_questions and none in processed_questions when it failed, none in
\* failed_questions and at most one in processed_questions when it
\* succeeded, exactly one in the evaluation script.  In the filter script
\* processed_questions and category_results grow together: every list of
\* category_results belongs to one of the five labels and holds the
\* questions of the processed records with that label, in order, so a
\* success with any other label is appended to no collection.  Each counted
\* item raised processed_count and success_count, or error_count, by one.
C22_RecordedOncePerOutcome ==
    /\ \A j \in DOMAIN ipc :
          result[j].set =>
             IF result[j].processed
             THEN /\ Occurrences(failed_questions, j) = 0
                  /\ Occurrences(processed_questions, j) <= 1
                  /\ mode = "eval" => Occurrences(processed_questions, j) = 1
             ELSE /\ Occurrences(failed_questions, j) = 1
                  /\ Occurrences(processed_questions, j) = 0
    /\ mode = "eval" => category_results = <<>>
    /\ mode = "filter" =>
          /\ DOMAIN category_results \subseteq Recognised
          /\ \A p \in DOMAIN processed_questions :
                processed_questions[p].category \in DOMAIN category_results
          /\ \A c \in DOMAIN category_results :
                /\ Len(category_results[c]) = Cardinality(Labelled(c))
                /\ \A n \in DOMAIN category_results[c] :
                      \E p \in Labelled(c) :
                          /\ Cardinality({q \in Labelled(c) : q <= p}) = n
                          /\ category_results[c][n] =
                                tasks[processed_questions[p].index].question_data
    /\ processed_count = Cardinality({j \in Counted : result[j] = Success})
    /\ success_count = processed_count
    /\ error_count = Cardinality({j \in Counted : result[j] = Failure})

\* A filter run of three counted items: one failed, one was given a label of
\* the five, and one succeeded with another label and is in no collection.
C22_Witness ==
    /\ mode = "filter" /\ N = 3 /\ Counted = 1..3
    /\ Len(failed_questions) = 1 /\ Len(processed_questions) = 1
    /\ DOMAIN category_results = {"CT"} /\ Len(category_results["CT"]) = 1
    /\ \E j \in Counted : result[j] = Success /\ RecordedTimes(j) = 0

\* Some thread is at a point where it waits for something outside the
\* program's memory: a worker for the answer of the remote call, a
\* clear_status thread for its delay, display_status for the console while
\* it writes the status lines or for its sleep.
Suspended ==
    \/ \E j \in DOMAIN ipc : ipc[j] = "waiting"
    \/ timers # {}
    \/ mpc \in {"printing", "sleep"}

\* C23 (as claimed): no thread holds result_lock while a thread is at a
\* suspension point: the remote call, the status-clear delay and the
\* monitor's rendering all happen with the lock free, so a worker whose
\* call has returned can always record its outcome.
C23_Claim == Suspended => LockFree

\* C24: once progress_bar.close() has run, display_status leaves its loop:
\* it finishes the iteration it is in, and the next time it evaluates the
\* loop condition it exits instead of starting another iteration.
C24_MonitorTerminates ==
    /\ progress_disable ~> (mpc = "exited")
    /\ [][(progress_disable /\ mpc = "test" /\ mpc' # mpc) => mpc' = "exited"]_vars
    /\ [][mpc = "exited" => mpc' = "exited"]_vars

\* display_status has left its loop after a run of three items whose bar
\* was closed.
C24_Witness == progress_disable /\ mpc = "exited" /\ progress_n = 3

\* A step of the display_status thread, which runs from the moment it is
\* started: every one of its steps moves its position.
MonitorMoves == mpc # "off" /\ mpc' # mpc

\* C25: display_status only reads the run state: none of its steps changes
\* the counters, the bar's counter, the status map, the usage map, the
\* results or an outcome collection, in either script; and a run it
\* watched returns with every item counted once, the counters agreeing
\* with the recorded results as in a run without it.
C25_MonitorReadOnly ==
    /\ [][MonitorMoves =>
             UNCHANGED <<counters, progress_n, progress_disable, key_status,
                         key_usage_count, result, collections, pc, ipc>>]_vars
    /\ [](pc = "returned" =>
             /\ processed_count =
                   Cardinality({j \in DOMAIN result : result[j] = Success})
             /\ error_count =
                   Cardinality({j \in DOMAIN result : result[j] = Failure})
             /\ processed_count + error_count = N
             /\ error_count = Len(failed_questions))

\* display_status holds its snapshot of a run with a processed and a
\* failed question and is printing the status lines.
C25_Witness ==
    /\ mpc = "printing" /\ completed = 2
    /\ Len(processed_questions) = 1 /\ Len(failed_questions) = 1

\* generate_reports raised inside its try block.
ReportsFailed == ReportsWritten /\ reports.error

\* C26: the call of generate_reports always returns to process_questions,
\* which goes on to its final statistics, whether or not an exception was
\* raised inside; the call leaves the counters, the usage map, the results
\* and the outcome collections as they were, and when an exception was
\* raised the run still returns, its final statistics showing the counters
\* of the dispatch phase.
C26_ReportErrorContained ==
    /\ [][(pc = "reports" /\ pc' # pc) =>
             /\ pc' = "finalize"
             /\ UNCHANGED <<counters, key_usage_count, result, collections>>]_vars
    /\ [](ReportsFailed => pc \in {"finalize", "returned"})
    /\ []((ReportsFailed /\ pc = "returned") =>
             /\ report.processed = processed_count
             /\ report.success = success_count
             /\ report.error = error_count
             /\ processed_count + error_count = N
             /\ error_count = Len(failed_questions))

\* An evaluation run of two questions that both failed has returned,
\* generate_reports having raised while it wrote the accuracy report.
C26_Witness ==
    /\ pc = "returned" /\ ReportsFailed
    /\ N = 2 /\ error_count = 2 /\ Len(failed_questions) = 2

\* How many tasks carry key k.
AssignedTo(k) == Cardinality({j \in DOMAIN tasks : tasks[j].api_key = k})

\* C27: from the end of the task loop on, before any task is submitted,
\* key_usage_count[k] is the number of tasks that carry key k, and no later
\* step of any thread (worker, clear_status, display_status, main) changes
\* the map, whatever the order of completion and whichever calls fail.
C27_UsageFixedByAssignment ==
    /\ [](Assigned =>
             \A k \in DOMAIN key_usage_count : key_usage_count[k] = AssignedTo(k))
    /\ [][Assigned => key_usage_count' = key_usage_count]_vars

\* A run of three items on two keys has returned, with a failed item, every
\* delayed reset fired and the monitor gone: the first key was used twice.
C27_Witness ==
    /\ pc = "returned" /\ N = 3 /\ error_count >= 1
    /\ timers = {} /\ mpc = "exited"
    /\ \E k \in DOMAIN key_usage_count : key_usage_count[k] = 2

\* Every item has its outcome and its function call has returned.
AllTerminal ==
    /\ pc \in {"dispatch", "reports", "finalize", "returned"}
    /\ \A j \in DOMAIN ipc : ipc[j] \in {"done", "consumed"}

AllIdle == \A id \in DOMAIN key_status : key_status[id] = Idle

\* C28: an item that completes, with either outcome, starts a delayed
\* reset; a delayed reset that fires sets the status of the item's
\* credential to the idle marker; and once every item is terminal and no
\* delayed reset is outstanding, every entry of the status map is the idle
\* marker.
C28_IdleAfterResets ==
    /\ [][\A j \in DOMAIN ipc :
             (ipc[j] = "finishing" /\ ipc'[j] = "done") => j \in timers']_vars
    /\ [][\A j \in timers :
             j \notin timers' => key_status'[KeyId(tasks[j].api_key)] = Idle]_vars
    /\ []((AllTerminal /\ timers = {}) => AllIdle)

\* Three items on two credentials, one of them failed, are all terminal and
\* the three delayed resets have fired: both entries show the idle marker.
C28_Witness ==
    /\ AllTerminal /\ timers = {} /\ N = 3
    /\ Len(failed_questions) = 1
    /\ Cardinality(DOMAIN key_status) = 2 /\ AllIdle

\* Item j has set its processing label and its outcome is not yet known.
Working(j) == ipc[j] \in {"running", "waiting"}

\* C30 (as claimed, in its weakest reading): while an item is in flight
\* under a credential, the credential's entry of the status map is not the
\* idle marker: no delayed reset of an earlier item on the same credential
\* puts the idle marker over the label of a later item still in flight.
C30_Claim ==
    \A j \in DOMAIN ipc :
        Working(j) => key_status[KeyId(tasks[j].api_key)] # Idle

\* The pairs of characters that differ in letter case only.
CasePairs == {{"a", "A"}, {"b", "B"}}

\* s and t are equal up to the case of their letters.
SameUpToCase(s, t) ==
    /\ Len(s) = Len(t)
    /\ \A i \in DOMAIN s : s[i] = t[i] \/ {s[i], t[i]} \in CasePairs

\* t is s without the whitespace at its two ends.
IsTrimOf(t, s) ==
    /\ t = <<>> \/ (t[1] # " " /\ t[Len(t)] # " ")
    /\ \E a, b \in 0..Len(s) :
          /\ a + b <= Len(s)
          /\ t = SubSeq(s, a + 1, Len(s) - b)
          /\ \A i \in 1..a : s[i] = " "
          /\ \A i \in (Len(s) - b + 1)..Len(s) : s[i] = " "

\* C29: in the evaluation script the record of a processed question holds
\* the selected_answer of the response with the whitespace at its ends
\* removed and the expected answer of the question as it is, and its
\* is_correct is true exactly when those two are equal up to the case of
\* their letters: the same length and, position by position, the same
\* character or the two cases of one letter.
C29_IsCorrectUpToCase ==
    \A p \in DOMAIN processed_questions :
        LET rec == processed_questions[p]
        IN  mode = "eval" =>
              /\ response[rec.index].kind = "ok"
              /\ IsTrimOf(rec.ai_answer, response[rec.index].value)
              /\ rec.correct_answer = questions[rec.index].answer
              /\ rec.is_correct <=> SameUpToCase(rec.ai_answer, rec.correct_answer)

\* The service selected "a " for a question whose expected answer is "A":
\* the record holds "a" and is_correct.
C29_Witness ==
    /\ Len(processed_questions) = 1
    /\ response[1].value = <<"a", " ">>
    /\ questions[1].answer = <<"A">>
    /\ processed_questions[1].ai_answer = <<"a">>
    /\ processed_questions[1].is_correct

\* C31: in the evaluation script processed_count equals success_count
\* throughout, processed_count + error_count is the number of finished
\* futures the main thread has consumed, and when process_questions
\* returns success_count = processed_count = len(processed_questions) and
\* error_count = len(failed_questions).
C31_CountersAgree ==
    mode = "eval" =>
        /\ processed_count = success_count
        /\ processed_count + error_count = Cardinality(Counted)
        /\ pc = "returned" =>
              /\ success_count = Len(processed_questions)
              /\ error_count = Len(failed_questions)

\* Mid-run in the evaluation script: the main thread has consumed a success
\* and a failure of three items, the third being recorded as a success
\* already but not yet consumed.
C31_Witness ==
    /\ mode = "eval" /\ pc = "dispatch" /\ N = 3
    /\ processed_count = 1 /\ error_count = 1
    /\ Len(processed_questions) = 2 /\ Len(failed_questions) = 1

\* C32: in the evaluation script no item index occurs more than once in
\* processed_questions and failed_questions taken together, in any state:
\* no item is recorded as a success and as a failure, or twice in one list,
\* and an item has no record before a pool thread has taken it.
C32_RecordedAtMostOnce ==
    mode = "eval" =>
        /\ \A j \in 1..N : RecordedTimes(j) <= 1
        /\ \A p \in DOMAIN processed_questions :
              processed_questions[p].index \in 1..N
        /\ \A p \in DOMAIN failed_questions : failed_questions[p].index \in 1..N
        /\ \A j \in DOMAIN ipc : ipc[j] = "queued" => RecordedTimes(j) = 0

\* Mid-run in the evaluation script: one item recorded as a success, one as
\* a failure, and the third waiting for its answer.
C32_Witness ==
    /\ mode = "eval" /\ pc = "dispatch" /\ N = 3
    /\ Len(processed_questions) = 1 /\ Len(failed_questions) = 1
    /\ \E j \in DOMAIN ipc : ipc[j] = "waiting"

\* The number of outcomes appended so far.
Recorded == Len(processed_questions) + Len(failed_questions)

\* C33: in the evaluation script the completed counter progress_bar.n never
\* exceeds the number of outcomes appended to processed_questions and
\* failed_questions, which never exceeds N; the value display_status read
\* from the counter for the lines it is printing does not exceed it either.
C33_CompletedAtMostRecorded ==
    mode = "eval" =>
        /\ progress_n <= Recorded
        /\ Recorded <= N
        /\ completed <= Recorded

\* display_status prints "1 completed" of an evaluation run in which a
\* second outcome is recorded already but not yet counted as completed.
C33_Witness ==
    /\ mode = "eval" /\ mpc = "printing" /\ completed = 1
    /\ progress_n = 1 /\ Recorded = 2
    /\ Len(failed_questions) = 1

\* The number of questions over all lists of category_results.
TotalClassified ==
    SumOver([c \in DOMAIN category_results |-> Len(category_results[c])],
            DOMAIN category_results)

\* The items that succeeded with a label that is not one of the five.
UnrelatedSuccesses ==
    {j \in DOMAIN result :
        result[j] = Success /\ response[j].value \notin Recognised}

\* C34: in the filter script the keys of category_results are among the
\* five recognised labels and its lists hold as many questions as
\* processed_questions has records, in every state; once the reports are
\* written, N - total_classified - error_count is not negative, is the
\* number of items that succeeded with a label outside the five, and is
\* the unrelated count of the classification report.
C34_UnrelatedCount ==
    mode = "filter" =>
        /\ DOMAIN category_results \subseteq Recognised
        /\ TotalClassified = Len(processed_questions)
        /\ ReportsWritten =>
              /\ N - TotalClassified - error_count >= 0
              /\ N - TotalClassified - error_count = Cardinality(UnrelatedSuccesses)
              /\ reports.statistics.unrelated = Cardinality(UnrelatedSuccesses)

\* A filter run of three questions has returned: one classified, one
\* unrelated, one failed, and the report counts one unrelated question.
C34_Witness ==
    /\ mode = "filter" /\ pc = "returned" /\ N = 3
    /\ TotalClassified = 1 /\ error_count = 1
    /\ Cardinality(UnrelatedSuccesses) = 1
    /\ reports.statistics.unrelated = 1

\* C35: items become in flight, that is are taken off the executor's work
\* queue by a pool thread, in index order: an item is never in flight or
\* finished while an item of lower index is still pending, and the item a
\* step takes is the pending item of lowest index.
C35_StartedInIndexOrder ==
    /\ [](\A i, j \in DOMAIN ipc :
             (i < j /\ ItemState(j) # "Pending") => ItemState(i) # "Pending")
    /\ [][\A j \in DOMAIN ipc :
             (ipc # <<>> /\ ItemState(j) = "Pending" /\ ItemState(j)' # "Pending") =>
                 /\ ItemState(j)' = "InFlight"
                 /\ \A i \in 1..(j - 1) : ItemState(i) # "Pending"
                 /\ \A i \in DOMAIN ipc \ {j} : ItemState(i)' = ItemState(i)]_vars

\* Three items on two workers: item 1 is finished and consumed, item 2 is
\* waiting for its answer and item 3 has just been taken.
C35_Witness ==
    /\ N = 3 /\ num_workers = 2 /\ pc = "dispatch"
    /\ ipc = <<"consumed", "waiting", "taken">>

====
